---- MODULE Spec2Model ----
(***************************************************************************)
(* Verification model of the misinformation-detection pipeline:            *)
(*   - ClaimDatabaseTool   (sub_agents/fact_check_agent/claim_database_tool.py) *)
(*   - GeminiFactCheckerTool.run post-processing                            *)
(*   - OrchestratorTool.run / _analyze_media / _fact_check                  *)
(*                                                                         *)
(* Conventions.  Confidences are fixed-point numbers in thousandths        *)
(* (0.65 is 650).  A claim text is a sequence of one-character strings.    *)
(* md5 is taken to be collision free: a digest is identified with the      *)
(* byte string it was computed from.  datetime.now() is the variable now,  *)
(* which advances by one with every operation.                             *)
(***************************************************************************)
EXTENDS Integers, Sequences, FiniteSets, TLC

VARIABLES
    db,        \* contents of data/claims_db.json: [claims, pending_claims]
    now,       \* the clock read by datetime.now()
    call,      \* the last ClaimDatabaseTool.run call: the method it dispatched to
               \* ("update" dispatches to _store_claim) and its arguments
    ret,       \* value returned by the last ClaimDatabaseTool.run call
    upserts,   \* history: number of completed store/update calls per fingerprint
    procs,     \* concurrent callers of ClaimDatabaseTool.run("store"/"update")
    pc,        \* position of the OrchestratorTool.run call in progress
    pr,        \* its pipeline_result (user_input and file_path as they stand)
    web,       \* value returned by the last WebSearchTool.run call
    gemini,    \* the last GeminiFactCheckerTool.run call: the reply of the
               \* model and the value run returned
    calls,     \* collaborator calls issued by the run so far
    sweep,     \* the PendingClaimsChecker.check_pending_claims call in progress
    earlier    \* the request, collaborator responses and result of the run
               \* made before the one in progress, if any

storeVars == <<db, now, call, ret, upserts>>

runVars == <<pc, pr, web, gemini, calls>>

vars == <<db, now, call, ret, upserts, procs, pc, pr, web, gemini, calls, sweep,
         earlier>>

----------------------------------------------------------------------------
(* Bounds of the model *)

MaxOps == 4
NumCallers == 2
MaxConcCalls == 2

----------------------------------------------------------------------------
(* Claim texts and the fingerprint *)

T_plain == <<"a", " ", "b">>
T_caseWs == <<" ", "A", " ", "B", " ">>
T_innerWs == <<"a", " ", " ", "b">>

Texts == {T_plain, T_caseWs, T_innerWs}

\* what run() appends to user_input: "\n\nExtracted from media: " + text
MediaSuffix == <<" ", "m">>

RunTexts == {T_plain, T_plain \o MediaSuffix}

IsSpace(c) == c = " "

\* str.lower() on one character
Lower(c) == CASE c = "A" -> "a" [] c = "B" -> "b" [] OTHER -> c

\* str.lower()
LowerStr(s) == [i \in 1..Len(s) |-> Lower(s[i])]

RECURSIVE LStrip(_)
LStrip(s) == IF s # <<>> /\ IsSpace(Head(s)) THEN LStrip(Tail(s)) ELSE s

RECURSIVE RStrip(_)
RStrip(s) ==
    IF s # <<>> /\ IsSpace(s[Len(s)]) THEN RStrip(SubSeq(s, 1, Len(s) - 1)) ELSE s

\* str.strip(): leading and trailing whitespace only
Strip(s) == RStrip(LStrip(s))

\* hashlib.md5(...).hexdigest(), collision free
Md5(s) == s

NoStripHash(claim) == Md5(LowerStr(claim))

\* ClaimDatabaseTool._get_claim_hash
get_claim_hash(claim) == Md5(Strip(LowerStr(claim)))

Fingerprints == {get_claim_hash(t) : t \in Texts \cup RunTexts}

----------------------------------------------------------------------------
(* ClaimDatabaseTool *)

\* _ensure_db_exists: {"claims": [], "pending_claims": []}
EmptyDb == [claims |-> <<>>, pending_claims |-> <<>>]

PendingBelow == 600

\* the threshold of the persistence rule (orchestrator) and of the Claim invariant
ResolutionThreshold == 650

\* line 73: "pending" if verdict == "UNCERTAIN" or confidence < 0.6 else "resolved"
StatusOf(verdict, confidence) ==
    IF verdict = "UNCERTAIN" \/ confidence < PendingBelow THEN "pending" ELSE "resolved"

\* lines 77-81: index of the first record with this id, 0 when there is none
ExistingIdx(claims, h) ==
    IF \E i \in 1..Len(claims) : claims[i].id = h
    THEN CHOOSE i \in 1..Len(claims) :
            /\ claims[i].id = h
            /\ \A j \in 1..(i - 1) : claims[j].id # h
    ELSE 0

RECURSIVE Without(_, _)
\* [c for c in pending if c['id'] != h]
Without(pending, h) ==
    IF pending = <<>> THEN <<>>
    ELSE IF Head(pending).id = h THEN Without(Tail(pending), h)
         ELSE <<Head(pending)>> \o Without(Tail(pending), h)

NoCountRecord(old, rec) == [rec EXCEPT !.first_checked = old.first_checked]

\* lines 85-86: the record that replaces an existing one
MergeRecord(old, rec) ==
    [rec EXCEPT !.first_checked = old.first_checked,
                !.check_count = old.check_count + 1]

KeepQueue(pending, h, claim, status, t) ==
    IF status = "pending"
    THEN IF \E i \in 1..Len(pending) : pending[i].id = h
         THEN pending
         ELSE Append(pending, [id |-> h, claim |-> claim, added |-> t])
    ELSE pending

\* lines 92-102: the pending queue after the record got its status
QueueAfter(pending, h, claim, status, t) ==
    IF status = "pending"
    THEN IF \E i \in 1..Len(pending) : pending[i].id = h
         THEN pending
         ELSE Append(pending, [id |-> h, claim |-> claim, added |-> t])
    ELSE Without(pending, h)

\* ClaimDatabaseTool._store_claim applied to the database d it has read, at time t:
\* the database it writes back and the value it returns
store_claim(d, claim, verdict, confidence, evidence, t) ==
    LET h == get_claim_hash(claim)
        rec == [id |-> h, claim |-> claim, verdict |-> verdict,
                confidence |-> confidence, evidence |-> evidence,
                first_checked |-> t, last_checked |-> t, check_count |-> 1,
                status |-> StatusOf(verdict, confidence)]
        idx == ExistingIdx(d.claims, h)
        rec2 == IF idx # 0 THEN MergeRecord(d.claims[idx], rec) ELSE rec
        claims2 == IF idx # 0 THEN [d.claims EXCEPT ![idx] = rec2]
                   ELSE Append(d.claims, rec2)
        pend2 == QueueAfter(d.pending_claims, h, claim, rec2.status, t)
    IN [db |-> [claims |-> claims2, pending_claims |-> pend2],
        ret |-> [kind |-> "store", success |-> TRUE, claim_id |-> h,
                 status |-> rec2.status]]

\* ClaimDatabaseTool._retrieve_claim
retrieve_claim(d, claim) ==
    LET idx == ExistingIdx(d.claims, get_claim_hash(claim))
    IN IF idx # 0
       THEN [kind |-> "retrieve", found |-> TRUE, claim_data |-> d.claims[idx]]
       ELSE [kind |-> "retrieve", found |-> FALSE]

\* ClaimDatabaseTool._get_pending_claims
get_pending_claims(d) ==
    [kind |-> "get_pending", success |-> TRUE,
     pending_count |-> Len(d.pending_claims),
     pending_claims |-> d.pending_claims]

----------------------------------------------------------------------------
(* Arguments the store is called with *)

StoreArgs ==
    { <<"TRUE", 900>>, <<"TRUE", 620>>, <<"FALSE", 500>>,
      <<"UNCERTAIN", 500>>, <<"OUTDATED_INFO", 900>> }

Evidence == {"e1", "e2"}

NoRet == [kind |-> "none"]

NoCall == [action |-> "none"]

StoreCall(action, claim, a, e) ==
    [action |-> action, claim |-> claim, verdict |-> a[1], confidence |-> a[2],
     evidence |-> e]

IdleProcs == [p \in 1..NumCallers |-> [pc |-> "idle"]]

NoUpserts == [h \in Fingerprints |-> 0]

\* Python's None where a dict is expected
NoneVal == [none |-> TRUE]

\* no sweep has been started
NoSweep == [pc |-> "idle"]

NoCalls ==
    [forensics |-> 0, ocr |-> 0, web |-> 0, reddit |-> 0, twitter |-> 0,
     gemini |-> 0, store |-> 0]

----------------------------------------------------------------------------
(* ClaimDatabaseTool.run over a file that may be unreadable, with evidence *)
(* that json.dump may be unable to serialise                                *)

\* the file after open(db_path, 'w') truncated it and json.dump raised or
\* the process stopped part-way: not a JSON document
CorruptDb == [corrupt |-> TRUE]

\* json.load succeeds
Readable(d) == "claims" \in DOMAIN d

\* lines 50-51
ErrorRet == [kind |-> "error", error |-> "exception"]

\* evidence holding an object json.dump has no encoding for
Unserializable == "unserializable"

\* run(action="store" or "update", ...): json.load raises on an unreadable
\* file (line 60); json.dump raises after line 104 emptied the file (line 105)
run_store(d, claim, verdict, confidence, evidence, t) ==
    IF ~Readable(d) THEN [db |-> d, ret |-> ErrorRet]
    ELSE IF evidence = Unserializable THEN [db |-> CorruptDb, ret |-> ErrorRet]
    ELSE store_claim(d, claim, verdict, confidence, evidence, t)

\* run(action="retrieve", ...)
run_retrieve(d, claim) ==
    IF Readable(d) THEN retrieve_claim(d, claim) ELSE ErrorRet

\* run(action="get_pending")
run_get_pending(d) ==
    IF Readable(d) THEN get_pending_claims(d) ELSE ErrorRet

----------------------------------------------------------------------------
(* Sequential use of the store: one caller, one call at a time *)

Init ==
    /\ db = EmptyDb
    /\ now = 0
    /\ call = NoCall
    /\ ret = NoRet
    /\ upserts = NoUpserts
    /\ procs = IdleProcs
    /\ sweep = NoSweep
    /\ earlier = NoneVal
    /\ pc = "idle"
    /\ pr = NoneVal
    /\ web = NoneVal
    /\ gemini = NoneVal
    /\ calls = NoCalls

\* run(action="store", ...)
Store ==
    /\ now < MaxOps
    /\ \E claim \in Texts, a \in StoreArgs, e \in Evidence :
         LET r == store_claim(db, claim, a[1], a[2], e, now + 1)
         IN /\ db' = r.db
            /\ call' = StoreCall("store", claim, a, e)
            /\ ret' = r.ret
            /\ upserts' = [upserts EXCEPT ![get_claim_hash(claim)] = @ + 1]
    /\ now' = now + 1
    /\ UNCHANGED <<procs, sweep, earlier, runVars>>

\* run(action="update", ...): _update_claim delegates to _store_claim
Update ==
    /\ now < MaxOps
    /\ \E claim \in Texts, a \in StoreArgs, e \in Evidence :
         LET r == store_claim(db, claim, a[1], a[2], e, now + 1)
         IN /\ db' = r.db
            /\ call' = StoreCall("store", claim, a, e)
            /\ ret' = r.ret
            /\ upserts' = [upserts EXCEPT ![get_claim_hash(claim)] = @ + 1]
    /\ now' = now + 1
    /\ UNCHANGED <<procs, sweep, earlier, runVars>>

RetrieveCounting ==
    /\ now < MaxOps
    /\ \E claim \in Texts :
         LET i == IF Readable(db) THEN ExistingIdx(db.claims, get_claim_hash(claim))
                  ELSE 0
         IN /\ call' = [action |-> "retrieve", claim |-> claim]
            /\ ret' = run_retrieve(db, claim)
            /\ db' = IF i = 0 THEN db
                     ELSE [db EXCEPT !.claims[i].check_count = @ + 1]
    /\ now' = now + 1
    /\ UNCHANGED <<upserts, procs, sweep, earlier, runVars>>

\* run(action="retrieve", ...)
Retrieve ==
    /\ now < MaxOps
    /\ \E claim \in Texts :
         /\ call' = [action |-> "retrieve", claim |-> claim]
         /\ ret' = run_retrieve(db, claim)
    /\ now' = now + 1
    /\ UNCHANGED <<db, upserts, procs, sweep, earlier, runVars>>

\* run(action="get_pending")
GetPending ==
    /\ now < MaxOps
    /\ call' = [action |-> "get_pending"]
    /\ ret' = run_get_pending(db)
    /\ now' = now + 1
    /\ UNCHANGED <<db, upserts, procs, sweep, earlier, runVars>>

\* run(action=<anything else>)
UnknownAction ==
    /\ now < MaxOps
    /\ call' = [action |-> "bogus"]
    /\ ret' = [kind |-> "error", error |-> "Unknown action"]
    /\ now' = now + 1
    /\ UNCHANGED <<db, upserts, procs, sweep, earlier, runVars>>

Next == Store \/ Update \/ Retrieve \/ GetPending \/ UnknownAction

Spec == Init /\ [][Next]_vars

----------------------------------------------------------------------------
(* Concurrent use of the store.  _store_claim reads the file (lines 59-60),  *)
(* computes, and writes the file back (lines 104-105) without any lock; a   *)
(* live pipeline run (caller 1) and the re-verification sweep (callers 2..) *)
(* each hold their own ClaimDatabaseTool over the same file.                *)

\* caller p enters _store_claim and loads the file
LoadDb(p) ==
    /\ now < MaxConcCalls
    /\ procs[p].pc = "idle"
    /\ \E claim \in Texts, a \in StoreArgs, e \in Evidence :
         procs' = [procs EXCEPT ![p] =
                     [pc |-> "loaded", local |-> db, t |-> now + 1,
                      args |-> StoreCall("store", claim, a, e)]]
    /\ now' = now + 1
    /\ UNCHANGED <<db, call, ret, upserts, sweep, earlier, runVars>>

\* caller p dumps the database it computed from its own copy and returns
DumpDb(p) ==
    /\ procs[p].pc = "loaded"
    /\ LET a == procs[p].args
           r == store_claim(procs[p].local, a.claim, a.verdict, a.confidence,
                            a.evidence, procs[p].t)
       IN /\ db' = r.db
          /\ call' = a
          /\ ret' = r.ret
          /\ upserts' = [upserts EXCEPT ![get_claim_hash(a.claim)] = @ + 1]
    /\ procs' = [procs EXCEPT ![p] = [pc |-> "idle"]]
    /\ UNCHANGED <<now, sweep, earlier, runVars>>

NextConc == \E p \in 1..NumCallers : LoadDb(p) \/ DumpDb(p)

SpecConc == Init /\ [][NextConc]_vars

----------------------------------------------------------------------------
(* GeminiFactCheckerTool.run: the reply of the model, parsed and post-processed *)

Min(a, b) == IF a < b THEN a ELSE b

Max(a, b) == IF a > b THEN a ELSE b

\* d.get(k, default)
Get(d, k, default) == IF k \in DOMAIN d THEN d[k] ELSE default

\* any("irrelevant" in w.lower() for w in warnings)
HasIrrelevant(warnings) ==
    \E i \in 1..Len(warnings) : warnings[i] \in {"irrelevant", "llm_irrelevant"}

\* "absence of credible sources" in explanation.lower()
MentionsAbsence(explanation) ==
    \E i \in 1..Len(explanation) : explanation[i] \in {"absence", "llm_absence"}

\* the dict returned when the model is not configured (lines 45-54, text = <<>>)
\* or when anything raised (lines 274-283, text = <<"error">>)
ErrorResult(text) ==
    [error |-> TRUE, verdict |-> "UNCERTAIN", confidence |-> 0,
     temporal_status |-> "UNCLEAR", explanation |-> text,
     key_evidence |-> <<>>, sources |-> <<>>, warnings |-> <<>>]

\* line 233: max(confidence, pattern_confidence * 0.8)
PatternBoost(confidence, pattern_confidence) ==
    Max(confidence, (pattern_confidence * 8) \div 10)

UncappedRelevance(confidence, relevance_score) == confidence

\* lines 223-224: min(confidence, 0.2) when relevance_score < 0.3
RelevanceCap(confidence, relevance_score) ==
    IF relevance_score < 300 THEN Min(confidence, 200) ELSE confidence

\* GeminiFactCheckerTool.run on a reply of the model.  A reply is
\*   [kind |-> "no_model"]            GOOGLE_API_KEY is not set
\*   [kind |-> "raises"]              generate_content raised
\*   [kind |-> "text", ...]           the fields of the text, where verdict = ""
\*     stands for a text without VERDICT: line and confidence is
\*     <<"num", c>>, <<"missing", 0>> (the default "0.5" applies) or
\*     <<"bad", 0>> (float() raises ValueError)
gemini_run(reply) ==
    IF reply.kind = "no_model" THEN ErrorResult(<<>>)
    ELSE IF reply.kind = "raises" \/ reply.confidence[1] = "bad"
    THEN ErrorResult(<<"error">>)
    ELSE
      LET verdict == reply.verdict
          c0 == IF reply.confidence[1] = "missing" THEN 500 ELSE reply.confidence[2]
          w0 == IF reply.warns_irrelevant THEN <<"llm_irrelevant">> ELSE <<>>
          e0 == IF reply.explains_absence THEN <<"llm_absence">> ELSE <<"llm">>
          c1 == RelevanceCap(c0, reply.relevance)
          w1 == IF reply.relevance < 300 /\ ~HasIrrelevant(w0)
                THEN <<"irrelevant">> \o w0 ELSE w0
          hit == reply.pattern # "NONE" /\ reply.pattern_confidence > 600
          w2 == IF hit THEN <<"pattern">> \o w1 ELSE w1
          c2 == IF hit /\ verdict \in {"FALSE", "LIKELY_FALSE", "UNCERTAIN"}
                THEN PatternBoost(c1, reply.pattern_confidence) ELSE c1
          e1 == IF verdict = "LIKELY_FALSE" /\ reply.significance = "MAJOR"
                   /\ ~MentionsAbsence(e0)
                THEN Append(e0, "absence") ELSE e0
      IN [error |-> FALSE, verdict |-> verdict, confidence |-> c2,
          relevance_score |-> reply.relevance,
          claim_significance |-> reply.significance,
          misinformation_pattern |-> IF reply.pattern # "NONE" THEN reply.pattern
                                     ELSE "None",
          pattern_confidence |-> reply.pattern_confidence,
          temporal_status |-> reply.temporal,
          explanation |-> e1, key_evidence |-> <<>>, sources |-> <<>>,
          warnings |-> w2]

----------------------------------------------------------------------------
(* WebSearchTool.run *)

\* an outcome is [ok, n, k]: the search worked and gave n results, k of them
\* from credible domains, or it raised (lines 43-49: no credible_sources key)
web_run(outcome) ==
    IF outcome.ok
    THEN [results |-> outcome.n, credible_sources |-> outcome.k,
          total_results |-> outcome.n]
    ELSE [error |-> TRUE, results |-> 0, total_results |-> 0]

----------------------------------------------------------------------------
(* OrchestratorTool *)

Truthy(x) == x = "True"

NoFile == [given |-> FALSE]

File(exts) == [given |-> TRUE, exts |-> exts]

MediaTypes == {"image", "video", "audio"}

\* lines 43-50: the content analysis taken from the hint
hinted_content(content_type) ==
    [content_type |-> content_type,
     has_text |-> content_type = "text",
     has_media |-> content_type \in MediaTypes,
     media_type |-> IF content_type \in MediaTypes THEN content_type ELSE "None",
     fast_mode |-> TRUE]

\* OrchestratorTool._analyze_content_type (user_input is never blank here)
analyze_content_type(file_path) ==
    [content_type |-> IF file_path.given THEN "media" ELSE "text",
     has_text |-> TRUE,
     has_media |-> file_path.given,
     media_type |->
        IF ~file_path.given THEN "None"
        ELSE IF file_path.exts \cap {".jpg", ".png", ".jpeg", ".gif"} # {} THEN "image"
        ELSE IF file_path.exts \cap {".mp4", ".avi", ".mov"} # {} THEN "video"
        ELSE IF file_path.exts \cap {".mp3", ".wav", ".m4a"} # {} THEN "audio"
        ELSE "None"]

MinWords == 10

SkipWellBelow(word_count) == word_count + 1 < MinWords

\* lines 173, 215: word_count < 10
TooFewWords(word_count) == word_count < MinWords

\* lines 168-179 and 210-221
text_fields(word_count) ==
    [text_word_count |-> word_count,
     has_significant_text |-> word_count >= MinWords,
     skip_gemini |-> IF TooFewWords(word_count) THEN "True" ELSE "False"]

\* ImageDeepfakeTool.run / AudioDeepfakeTool.run: the dict returned for a
\* detection f (the except branch has no is_manipulated key)
detector_result(f) ==
    IF f.is_deepfake = "None"
    THEN [error |-> TRUE, is_deepfake |-> "None", confidence |-> 0]
    ELSE [is_manipulated |-> f.is_deepfake, is_deepfake |-> f.is_deepfake,
          confidence |-> f.confidence]

\* OrchestratorTool._analyze_media.  f is what the detector returns;
\* VideoDeepfakeTool.run computes is_deepfake as np.mean(scores) > 0.5
\* (video_deepfake_tool.py lines 99-101), a numpy.bool_, which the field
\* numpy_bool of the video result records.
\* ([is_deepfake, confidence]; is_deepfake = "None" with confidence 0 when it
\* failed), words the number of words OCR or transcription extracts (0 when
\* it failed; the audio detector transcribes itself and returns no text when
\* it fails).
analyze_media(content_analysis, file_path, f, words) ==
    LET media_type == content_analysis.media_type
        base == [is_deepfake |-> "False", confidence |-> 0, extracted_words |-> 0,
                 media_type |-> media_type]
        found == [is_deepfake |-> f.is_deepfake, confidence |-> f.confidence,
                  media_type |-> media_type]
        heard == IF f.is_deepfake = "None" THEN 0 ELSE words
    IN IF media_type = "image" /\ file_path.given
       THEN [result |-> text_fields(words) @@ [extracted_words |-> words] @@ found
                        @@ [image_deepfake |-> detector_result(f)],
             forensics |-> 1, ocr |-> 1]
       ELSE IF media_type = "video" /\ file_path.given
       THEN [result |-> [extracted_words |-> 0] @@ found
                        @@ [numpy_bool |-> f.is_deepfake # "None"],
             forensics |-> 1, ocr |-> 0]
       ELSE IF media_type = "audio" /\ file_path.given
       THEN [result |-> text_fields(heard) @@ [extracted_words |-> heard] @@ found
                        @@ [audio_deepfake |-> detector_result(f)],
             forensics |-> 1, ocr |-> 1]
       ELSE [result |-> base, forensics |-> 0, ocr |-> 0]

DeepfakeConfidence == 950

BoostMany == 150

BoostSome == 80

HighConfidence == 850

BoostAnySource(confidence, credible) ==
    IF credible >= 1 THEN Min(confidence + BoostSome, 1000) ELSE confidence

\* lines 358-363: the corroboration boost
Boost(confidence, credible) ==
    IF credible >= 3 THEN Min(confidence + BoostMany, 1000)
    ELSE IF credible >= 1 THEN Min(confidence + BoostSome, 1000)
    ELSE confidence

NoTemporalOverride(verdict, temporal_status) == verdict

\* lines 366-369: TRUE presented with outdated information
TemporalOverride(verdict, temporal_status) ==
    IF temporal_status = "OUTDATED" /\ verdict = "TRUE" THEN "OUTDATED_INFO"
    ELSE verdict

PersistLowConfidenceOnly(verdict, confidence) == confidence < ResolutionThreshold

\* line 372: the persistence decision
Persist(verdict, confidence) ==
    verdict \in {"UNCERTAIN", "OUTDATED_INFO"} \/ confidence < ResolutionThreshold

IgnoreDeepfake(media_analysis) == FALSE

\* lines 246-247: media_analysis and media_analysis.get("is_deepfake")
MediaIsDeepfake(media_analysis) ==
    media_analysis # NoneVal /\ Truthy(Get(media_analysis, "is_deepfake", "None"))

NoStore == [stored |-> FALSE]

\* line 260: evidence = {"deepfake_detected": True, "media_analysis": ...};
\* json.dump has no encoding for the numpy.bool_ of a video result
DeepfakeEvidence(media_analysis) ==
    IF Get(media_analysis, "numpy_bool", FALSE) THEN Unserializable
    ELSE "deepfake"

\* OrchestratorTool._fact_check(claim, previous_stages) with the outcomes of
\* the collaborators it calls: w of WebSearchTool, s = <<posts, tweets>> of
\* the Reddit and Twitter tools, g the reply GeminiFactCheckerTool gets.
\* Gives the dict it returns, the store call it makes and the calls it issued.
fact_check(claim, previous_stages, w, s, g) ==
    LET media_analysis == previous_stages.media_analysis
    IN IF MediaIsDeepfake(media_analysis)
       THEN [result |-> [verdict |-> "FALSE", confidence |-> DeepfakeConfidence,
                         temporal_status |-> "N/A",
                         explanation |-> <<"deepfake">>,
                         stored_in_db |-> "False", warnings |-> <<>>],
             store |-> [stored |-> TRUE, claim |-> claim, verdict |-> "FALSE",
                        confidence |-> DeepfakeConfidence,
                        evidence |-> DeepfakeEvidence(media_analysis)],
             web |-> NoneVal, gemini |-> NoneVal,
             retrievals |-> 0, reasonings |-> 0]
       ELSE
         LET web_result == web_run(w)
             gemini_result == gemini_run(g)
             credible == Get(web_result, "credible_sources", 0)
             \* line 281 rebinds result to the last web result listed
             rebound == web_result.results > 0
             confidence == Boost(Get(gemini_result, "confidence", 500), credible)
             temporal == Get(gemini_result, "temporal_status", "UNCLEAR")
             verdict == TemporalOverride(Get(gemini_result, "verdict", "UNCERTAIN"),
                                         temporal)
             warnings == IF temporal = "OUTDATED"
                         THEN Append(gemini_result.warnings, "outdated")
                         ELSE gemini_result.warnings
             store == Persist(verdict, confidence)
             explanation ==
                 gemini_result.explanation \o <<"social">>
                 \o (IF credible >= 3 THEN <<"verified">> ELSE <<>>)
                 \o (IF store THEN <<"saved">>
                     ELSE IF confidence >= HighConfidence THEN <<"high">> ELSE <<>>)
             result ==
                 [verdict |-> verdict, confidence |-> confidence,
                  temporal_status |-> temporal, explanation |-> explanation,
                  warnings |-> warnings,
                  misinformation_pattern |->
                      Get(gemini_result, "misinformation_pattern", "None"),
                  pattern_confidence |-> Get(gemini_result, "pattern_confidence", 0),
                  web_sources_found |-> web_result.results,
                  credible_sources_found |-> credible,
                  social_posts |-> s,
                  stored_in_db |-> IF store THEN "True"
                                   ELSE IF rebound THEN "missing" ELSE "False"]
         IN [result |-> result,
             store |-> IF store
                       THEN [stored |-> TRUE, claim |-> claim, verdict |-> verdict,
                             confidence |-> confidence, evidence |-> "factcheck"]
                       ELSE NoStore,
             web |-> web_result,
             gemini |-> [gemini_result EXCEPT !.warnings = warnings],
             retrievals |-> 1, reasonings |-> 1]

\* OrchestratorTool._get_tailored_advice
get_tailored_advice(pipeline_result) ==
    IF pipeline_result.final_verdict = "FALSE" THEN "do_not_share"
    ELSE IF pipeline_result.final_verdict = "TRUE" THEN "verified_accurate"
    ELSE IF pipeline_result.confidence < 500 THEN "cannot_verify"
    ELSE "partial_verification"

\* OrchestratorTool._generate_education
generate_education(pipeline_result) ==
    LET media_analysis == pipeline_result.stages.media_analysis
        fact == pipeline_result.stages.fact_check
    IN [topic |-> IF MediaIsDeepfake(media_analysis) THEN "deepfake"
                  ELSE IF Get(fact, "verdict", "None") = "FALSE" THEN "fact_checking"
                  ELSE "general",
        tailored_advice |-> get_tailored_advice(pipeline_result)]

\* OrchestratorTool._generate_recommendations
generate_recommendations(pipeline_result) ==
    LET verdict == pipeline_result.final_verdict
        confidence == pipeline_result.confidence
    IN (IF verdict = "FALSE" THEN <<"do_not_share", "inform_others">>
        ELSE IF verdict = "UNCERTAIN" \/ confidence < 600
        THEN <<"wait", "updates_follow">>
        ELSE IF verdict = "TRUE" THEN <<"appears_verified", "share_responsibly">>
        ELSE <<>>)
       \o (IF MediaIsDeepfake(pipeline_result.stages.media_analysis)
           THEN <<"report_deepfake">> ELSE <<>>)

\* lines 67-73: the fact-check stage of a run that skips fact-checking
SkippedFactCheck ==
    [verdict |-> "NO_TEXT_CONTENT", confidence |-> 1000,
     explanation |-> <<"skip_reason">>, skipped |-> TRUE,
     deepfake_only_analysis |-> TRUE]

----------------------------------------------------------------------------
(* One OrchestratorTool.run call, stage by stage *)

Request(hint, file) == [user_input |-> T_plain, content_type |-> hint, file_path |-> file]

\* content_type = "none": the caller gives no hint
TextRequests == {Request("none", NoFile)}

Requests ==
    TextRequests \cup
    { Request("text", NoFile), Request("url", NoFile),
      Request("image", File({".jpg"})), Request("none", File({".jpg"})),
      Request("video", File({".mp4"})), Request("none", File({".mp4"})),
      Request("audio", File({".mp3"})), Request("none", File({".mp3"})),
      Request("image", NoFile), Request("none", File({})) }

Detections ==
    { [is_deepfake |-> "None", confidence |-> 0],
      [is_deepfake |-> "True", confidence |-> 900],
      [is_deepfake |-> "False", confidence |-> 800] }

WordCounts == {0, 5, 9, 10, 50}

WebOutcome(ok, n, k) == [ok |-> ok, n |-> n, k |-> k]

FewWebOutcomes == {WebOutcome(FALSE, 0, 0), WebOutcome(TRUE, 0, 0), WebOutcome(TRUE, 5, 3)}

WebOutcomes ==
    {WebOutcome(FALSE, 0, 0), WebOutcome(TRUE, 0, 0)}
    \cup {WebOutcome(TRUE, 5, k) : k \in {0, 1, 2, 3, 5}}

\* <<posts_analyzed, tweets_analyzed>>
SocialOutcomes == {<<0, 0>>, <<3, 2>>}

TextReply(verdict, confidence, relevance, pattern, temporal, about) ==
    [kind |-> "text", verdict |-> verdict, confidence |-> confidence,
     relevance |-> relevance, pattern |-> pattern[1],
     pattern_confidence |-> pattern[2], temporal |-> temporal,
     significance |-> about[1], explains_absence |-> about[2],
     warns_irrelevant |-> about[3]]

Plain == <<"MINOR", FALSE, FALSE>>

NoPattern == <<"NONE", 0>>

FewReplies ==
    { [kind |-> "no_model"], [kind |-> "raises"],
      TextReply("TRUE", <<"num", 900>>, 500, NoPattern, "CURRENT", Plain),
      TextReply("FALSE", <<"num", 600>>, 500, NoPattern, "CURRENT", Plain),
      TextReply("UNCERTAIN", <<"bad", 0>>, 500, NoPattern, "CURRENT", Plain),
      TextReply("", <<"missing", 0>>, 500, NoPattern, "UNCLEAR", Plain) }

Replies ==
    { [kind |-> "no_model"], [kind |-> "raises"] }
    \cup
    { TextReply(v, c, r, p, t, a) :
        v \in {"TRUE", "FALSE", "LIKELY_FALSE", "UNCERTAIN", ""},
        c \in {<<"missing", 0>>, <<"bad", 0>>, <<"num", 600>>, <<"num", 700>>,
               <<"num", 1500>>},
        r \in {100, 300, 500},
        p \in {NoPattern, <<"FAKE_DEATH", 600>>, <<"FAKE_DEATH", 900>>},
        t \in {"CURRENT", "OUTDATED"},
        a \in {Plain, <<"MAJOR", FALSE, FALSE>>, <<"MAJOR", TRUE, FALSE>>,
               <<"MINOR", FALSE, TRUE>>} }

\* a store that already holds the claim of the request, pending or resolved
Seeded(verdict, confidence) ==
    LET r == store_claim(EmptyDb, T_plain, verdict, confidence, "e1", 1)
    IN [db |-> r.db, now |-> 1, ret |-> r.ret,
        call |-> StoreCall("store", T_plain, <<verdict, confidence>>, "e1"),
        upserts |-> [NoUpserts EXCEPT ![get_claim_hash(T_plain)] = 1]]

Seeds ==
    { [db |-> EmptyDb, now |-> 0, ret |-> NoRet, call |-> NoCall,
       upserts |-> NoUpserts],
      Seeded("UNCERTAIN", 500), Seeded("TRUE", 900) }

InitRun ==
    /\ \E seed \in Seeds :
         /\ db = seed.db
         /\ now = seed.now
         /\ call = seed.call
         /\ ret = seed.ret
         /\ upserts = seed.upserts
    /\ procs = IdleProcs
    /\ sweep = NoSweep
    /\ earlier = NoneVal
    /\ pc = "idle"
    /\ pr = NoneVal
    /\ web = NoneVal
    /\ gemini = NoneVal
    /\ calls = NoCalls

\* lines 26-55: run() is entered and Stage 1 classifies the content
Intake(requests) ==
    /\ pc = "idle"
    /\ \E r \in requests :
         LET content_analysis ==
                 IF r.content_type # "none" THEN hinted_content(r.content_type)
                 ELSE analyze_content_type(r.file_path)
         IN /\ pr' = [user_input |-> r.user_input, file_path |-> r.file_path,
                      stages |-> [content_intake |-> content_analysis,
                                  media_analysis |-> NoneVal,
                                  fact_check |-> NoneVal,
                                  knowledge |-> NoneVal],
                      final_verdict |-> "None", confidence |-> 0,
                      recommendations |-> <<>>]
            /\ pc' = IF content_analysis.has_media THEN "media_analysis"
                     ELSE "fact_check"
    /\ UNCHANGED <<storeVars, procs, sweep, earlier, web, gemini, calls>>

\* lines 57-86: Stage 2, and the return at line 80 when fact-checking is skipped
MediaAnalysis ==
    /\ pc = "media_analysis"
    /\ \E f \in Detections, words \in WordCounts :
         LET m == analyze_media(pr.stages.content_intake, pr.file_path, f, words)
             media_result == m.result
             skipped == [pr EXCEPT !.stages.media_analysis = media_result,
                                   !.stages.fact_check = SkippedFactCheck]
         IN /\ calls' = [calls EXCEPT !.forensics = @ + m.forensics,
                                      !.ocr = @ + m.ocr]
            /\ IF Truthy(Get(media_result, "skip_gemini", "None"))
               THEN /\ pr' = [skipped EXCEPT
                                !.stages.knowledge = generate_education(skipped),
                                !.final_verdict =
                                    IF Truthy(media_result.is_deepfake)
                                    THEN "DEEPFAKE" ELSE "AUTHENTIC_NO_TEXT",
                                !.confidence = media_result.confidence]
                    /\ pc' = "done"
               ELSE /\ pr' = [pr EXCEPT
                                !.stages.media_analysis = media_result,
                                !.user_input =
                                    IF media_result.extracted_words > 0
                                       /\ Get(media_result, "has_significant_text", FALSE)
                                    THEN @ \o MediaSuffix ELSE @]
                    /\ pc' = "fact_check"
    /\ UNCHANGED <<storeVars, procs, sweep, earlier, web, gemini>>

\* lines 88-91: Stage 3, _fact_check with the store call it makes
FactCheck(webOutcomes, replies) ==
    /\ pc = "fact_check"
    /\ \E w \in webOutcomes, s \in SocialOutcomes, g \in replies :
         LET o == fact_check(pr.user_input, pr.stages, w, s, g)
             r == run_store(db, o.store.claim, o.store.verdict,
                            o.store.confidence, o.store.evidence, now + 1)
         IN /\ pr' = [pr EXCEPT !.stages.fact_check = o.result]
            /\ web' = o.web
            /\ gemini' = IF o.reasonings = 0 THEN NoneVal
                         ELSE [reply |-> g, result |-> o.gemini]
            /\ calls' = [calls EXCEPT !.web = @ + o.retrievals,
                                      !.reddit = @ + o.retrievals,
                                      !.twitter = @ + o.retrievals,
                                      !.gemini = @ + o.reasonings,
                                      !.store = @ + (IF o.store.stored THEN 1 ELSE 0)]
            /\ IF o.store.stored
               THEN /\ db' = r.db
                    /\ ret' = r.ret
                    /\ call' = [o.store EXCEPT !.stored = TRUE] @@ [action |-> "store"]
                    /\ upserts' = IF Get(r.ret, "success", FALSE)
                                  THEN [upserts EXCEPT
                                          ![get_claim_hash(o.store.claim)] = @ + 1]
                                  ELSE upserts
                    /\ now' = now + 1
               ELSE UNCHANGED storeVars
    /\ pc' = "education"
    /\ UNCHANGED <<procs, sweep, earlier>>

FinishKnown ==
    /\ pc = "education"
    /\ LET taught == [pr EXCEPT !.stages.knowledge = generate_education(pr)]
           idx == IF Readable(db)
                  THEN ExistingIdx(db.claims, get_claim_hash(pr.user_input)) ELSE 0
           known == idx # 0 /\ db.claims[IF idx = 0 THEN 1 ELSE idx].check_count > 1
           final == [taught EXCEPT
                       !.final_verdict = Get(pr.stages.fact_check, "verdict", "UNCERTAIN"),
                       !.confidence = IF known THEN 1000
                                      ELSE Get(pr.stages.fact_check, "confidence", 0)]
       IN pr' = [final EXCEPT !.recommendations = generate_recommendations(final)]
    /\ pc' = "done"
    /\ UNCHANGED <<storeVars, procs, sweep, earlier, web, gemini, calls>>

\* lines 93-105: Stage 4, the final verdict and the recommendations
Finish ==
    /\ pc = "education"
    /\ LET taught == [pr EXCEPT !.stages.knowledge = generate_education(pr)]
           final == [taught EXCEPT
                       !.final_verdict = Get(pr.stages.fact_check, "verdict", "UNCERTAIN"),
                       !.confidence = Get(pr.stages.fact_check, "confidence", 0)]
       IN pr' = [final EXCEPT !.recommendations = generate_recommendations(final)]
    /\ pc' = "done"
    /\ UNCHANGED <<storeVars, procs, sweep, earlier, web, gemini, calls>>

\* every kind of request, a few collaborator outcomes
NextPipeline ==
    \/ Intake(Requests)
    \/ MediaAnalysis
    \/ FactCheck(FewWebOutcomes, FewReplies)
    \/ Finish

SpecPipeline == InitRun /\ [][NextPipeline]_vars

\* a text request, every collaborator outcome
NextFactCheck ==
    \/ Intake(TextRequests)
    \/ FactCheck(WebOutcomes, Replies)
    \/ Finish

SpecFactCheck == InitRun /\ [][NextFactCheck]_vars

----------------------------------------------------------------------------
(* A run whose reasoner call does not return.  generate_content is called  *)
(* without a timeout (gemini_fact_checker_tool.py lines 185-193) and        *)
(* _fact_check waits for it (orchestrator_tool.py line 319): nothing in the *)
(* code ends the wait.                                                      *)

\* lines 264-319: the retrieval calls return, generate_content is entered
ReasonerHangs(webOutcomes) ==
    /\ pc = "fact_check"
    /\ ~MediaIsDeepfake(pr.stages.media_analysis)
    /\ \E w \in webOutcomes : web' = web_run(w)
    /\ calls' = [calls EXCEPT !.web = @ + 1, !.reddit = @ + 1,
                              !.twitter = @ + 1, !.gemini = @ + 1]
    /\ pc' = "generate_content"
    /\ UNCHANGED <<storeVars, procs, sweep, earlier, pr, gemini>>

NextUnresponsive ==
    \/ Intake(Requests)
    \/ MediaAnalysis
    \/ FactCheck(FewWebOutcomes, FewReplies)
    \/ Finish
    \/ ReasonerHangs(FewWebOutcomes)

\* run() is sequential code: it takes its next step whenever it has one
SpecUnresponsive ==
    InitRun /\ [][NextUnresponsive]_vars /\ WF_vars(NextUnresponsive)

----------------------------------------------------------------------------
(* Two OrchestratorTool.run calls in a row on the same store: the second   *)
(* starts from the file the first one left                                  *)

TwoRunRequests ==
    TextRequests \cup
    { Request("image", File({".jpg"})), Request("video", File({".mp4"})) }

\* the first run has returned and run() is called again
Again ==
    /\ pc = "done"
    /\ earlier = NoneVal
    /\ earlier' = [pr |-> pr, web |-> web, gemini |-> gemini]
    /\ pc' = "idle"
    /\ pr' = NoneVal
    /\ web' = NoneVal
    /\ gemini' = NoneVal
    /\ calls' = NoCalls
    /\ UNCHANGED <<storeVars, procs, sweep>>

NextTwoRuns ==
    \/ Intake(TwoRunRequests)
    \/ MediaAnalysis
    \/ FactCheck(FewWebOutcomes, FewReplies)
    \/ Finish
    \/ Again

SpecTwoRuns == InitRun /\ [][NextTwoRuns]_vars

----------------------------------------------------------------------------
(* What the callers of OrchestratorTool.run report: the /api/analyze-media *)
(* endpoint and the Telegram bot's format_image_result                      *)

\* {} where a dict is expected
EmptyDict == <<>>

\* the overall assessment both callers choose (api_server.py lines 228-239;
\* format_image_result has no UNCERTAIN case and says VERIFIED instead)
overall_verdict(is_deepfake, content_verdict, otherwise) ==
    IF Truthy(is_deepfake) /\ content_verdict = "FALSE" THEN "DOUBLE_ALERT"
    ELSE IF Truthy(is_deepfake) /\ content_verdict = "TRUE" THEN "MIXED_RESULT"
    ELSE IF Truthy(is_deepfake) THEN "DEEPFAKE_DETECTED"
    ELSE IF content_verdict = "FALSE" THEN "FALSE_CONTENT"
    ELSE IF content_verdict = "TRUE" /\ otherwise = "UNCERTAIN" THEN "VERIFIED"
    ELSE otherwise

\* api_server.analyze_media on the dict run() returned
api_analyze_media(result, media_type) ==
    LET deepfake_analysis == Get(result, "media_analysis", EmptyDict)
        fact_check_stage == Get(result, "fact_check", EmptyDict)
        is_deepfake ==
            IF media_type = "image"
            THEN Get(Get(deepfake_analysis, "image_deepfake", EmptyDict),
                     "is_manipulated", "False")
            ELSE IF media_type = "video"
            THEN Get(Get(deepfake_analysis, "video_deepfake", EmptyDict),
                     "is_deepfake", "False")
            ELSE IF media_type = "audio"
            THEN Get(Get(deepfake_analysis, "audio_deepfake", EmptyDict),
                     "is_deepfake", "False")
            ELSE "False"
        content_verdict == Get(fact_check_stage, "verdict", "UNCERTAIN")
    IN [is_deepfake |-> is_deepfake, content_verdict |-> content_verdict,
        overall_verdict |-> overall_verdict(is_deepfake, content_verdict, "UNCERTAIN")]

\* telegram_bot.format_image_result on the dict run() returned
format_image_result(result) ==
    LET stages == Get(result, "stages", EmptyDict)
        media_analysis == Get(stages, "media_analysis", EmptyDict)
        fact_check_stage == Get(stages, "fact_check", EmptyDict)
        is_deepfake == Get(Get(media_analysis, "image_deepfake", EmptyDict),
                           "is_manipulated", "False")
        content_verdict == Get(fact_check_stage, "verdict", "UNCERTAIN")
    IN [is_deepfake |-> is_deepfake, content_verdict |-> content_verdict,
        status |-> IF Truthy(is_deepfake) THEN "DEEPFAKE" ELSE "AUTHENTIC",
        overall_verdict |-> overall_verdict(is_deepfake, content_verdict, "VERIFIED")]

----------------------------------------------------------------------------
(* PendingClaimsChecker.check_pending_claims: one re-verification sweep *)

SweepBoost == 100

\* lines 65-70: the verdict and confidence the sweep writes back
recheck(gemini_result, web_result) ==
    LET confidence == Get(gemini_result, "confidence", 0)
    IN [verdict |-> Get(gemini_result, "verdict", "UNCERTAIN"),
        confidence |-> IF Get(web_result, "credible_sources", 0) > 0
                       THEN Min(confidence + SweepBoost, 1000)
                       ELSE confidence]

RECURSIVE StoreAll(_, _, _)
\* the outcome of storing items[1], items[2], ... in d from time t on
StoreAll(d, items, t) ==
    IF items = <<>> THEN d
    ELSE StoreAll(store_claim(d, items[1][1], items[1][2], items[1][3], "e1", t + 1).db,
                  Tail(items), t + 1)

T_media == T_plain \o MediaSuffix

\* a store left by earlier runs that stored these <<claim, verdict, confidence>>
SweepSeed(items) ==
    [db |-> StoreAll(EmptyDb, items, 0), now |-> Len(items),
     upserts |-> [h \in Fingerprints |->
                    Cardinality({i \in 1..Len(items) : get_claim_hash(items[i][1]) = h})]]

SweepSeeds ==
    { SweepSeed(<<>>),
      SweepSeed(<< <<T_plain, "TRUE", 900>> >>),
      SweepSeed(<< <<T_plain, "UNCERTAIN", 500>> >>),
      SweepSeed(<< <<T_innerWs, "FALSE", 500>>, <<T_media, "TRUE", 900>>,
                   <<T_plain, "UNCERTAIN", 500>> >>) }

\* what the evidence bundle of a re-check can be: serialisable, or holding
\* the grounding metadata object of a parsed reply (lines 241-246, 75-79)
Bundles(gemini_result) ==
    IF gemini_result.error THEN {"recheck"} ELSE {"recheck", Unserializable}

\* stores a live pipeline run makes while the sweep is under way
LiveStores == { <<T_media, "UNCERTAIN", 500>>, <<T_plain, "TRUE", 900>> }

AbortOnError(s, claim_id, update_result) ==
    [s EXCEPT !.checked = Append(@, claim_id),
              !.idx = @ + 1,
              !.pc = IF s.idx < Len(s.pending_claims)
                        /\ Get(update_result, "success", FALSE)
                     THEN "checking" ELSE "done"]

\* lines 47, 89-100: the loop moves on to the next entry of the list it
\* iterates, whatever the update returned
advance(s, claim_id, update_result) ==
    [s EXCEPT !.checked = Append(@, claim_id),
              !.idx = @ + 1,
              !.pc = IF s.idx < Len(s.pending_claims) THEN "checking" ELSE "done"]

InitSweep ==
    /\ \E seed \in SweepSeeds :
         /\ db = seed.db
         /\ now = seed.now
         /\ upserts = seed.upserts
    /\ call = NoCall
    /\ ret = NoRet
    /\ procs = IdleProcs
    /\ sweep = NoSweep
    /\ earlier = NoneVal
    /\ pc = "idle"
    /\ pr = NoneVal
    /\ web = NoneVal
    /\ gemini = NoneVal
    /\ calls = NoCalls

\* lines 32-44: the sweep reads the pending list
SweepStart ==
    /\ sweep.pc = "idle"
    /\ LET result == run_get_pending(db)
           pending_claims == Get(result, "pending_claims", <<>>)
       IN /\ ret' = result
          /\ sweep' = [pc |-> IF Get(result, "success", FALSE) /\ pending_claims # <<>>
                              THEN "checking" ELSE "done",
                       pending_claims |-> pending_claims, idx |-> 1,
                       checked |-> <<>>, live |-> FALSE]
    /\ call' = [action |-> "get_pending"]
    /\ now' = now + 1
    /\ UNCHANGED <<db, upserts, procs, earlier, runVars>>

\* lines 47-100: one iteration of the loop
SweepCheck(webOutcomes, replies) ==
    /\ sweep.pc = "checking"
    /\ LET claim_entry == sweep.pending_claims[sweep.idx]
       IN \E g \in replies, w \in webOutcomes :
            LET gemini_result == gemini_run(g)
                web_result == web_run(w)
                v == recheck(gemini_result, web_result)
            IN \E evidence \in Bundles(gemini_result) :
                 LET r == run_store(db, claim_entry.claim, v.verdict, v.confidence,
                                    evidence, now + 1)
                 IN /\ gemini' = [reply |-> g, result |-> gemini_result]
                    /\ web' = web_result
                    /\ db' = r.db
                    /\ ret' = r.ret
                    /\ call' = StoreCall("store", claim_entry.claim,
                                         <<v.verdict, v.confidence>>, evidence)
                    /\ upserts' = IF Get(r.ret, "success", FALSE)
                                  THEN [upserts EXCEPT ![claim_entry.id] = @ + 1]
                                  ELSE upserts
                    /\ sweep' = advance(sweep, claim_entry.id, r.ret)
    /\ calls' = [calls EXCEPT !.gemini = @ + 1, !.web = @ + 1, !.store = @ + 1]
    /\ now' = now + 1
    /\ UNCHANGED <<procs, earlier, pc, pr>>

\* a pipeline run stores a claim between two iterations of the sweep
LiveStore ==
    /\ sweep.pc = "checking"
    /\ ~sweep.live
    /\ \E a \in LiveStores :
         LET r == run_store(db, a[1], a[2], a[3], "factcheck", now + 1)
         IN /\ db' = r.db
            /\ ret' = r.ret
            /\ call' = StoreCall("store", a[1], <<a[2], a[3]>>, "factcheck")
            /\ upserts' = IF Get(r.ret, "success", FALSE)
                          THEN [upserts EXCEPT ![get_claim_hash(a[1])] = @ + 1]
                          ELSE upserts
    /\ sweep' = [sweep EXCEPT !.live = TRUE]
    /\ now' = now + 1
    /\ UNCHANGED <<procs, earlier, runVars>>

NextSweep ==
    \/ SweepStart
    \/ SweepCheck(FewWebOutcomes, FewReplies)
    \/ LiveStore

SpecSweep == InitSweep /\ [][NextSweep]_vars

\* check_pending_claims is sequential code: once called it keeps running,
\* as long as every collaborator call returns
SpecSweepFair == SpecSweep /\ WF_vars(SweepStart \/ SweepCheck(FewWebOutcomes, FewReplies))

----------------------------------------------------------------------------
(* Read-only calls of ClaimDatabaseTool.run on a store left by earlier runs, *)
(* readable or not                                                           *)

ReadSeeds ==
    SweepSeeds \cup
    { SweepSeed(<< <<T_plain, "FALSE", 500>> >>),
      SweepSeed(<< <<T_caseWs, "UNCERTAIN", 500>> >>),
      SweepSeed(<< <<T_innerWs, "TRUE", 900>> >>),
      [db |-> CorruptDb, now |-> 0, upserts |-> NoUpserts] }

InitReads ==
    /\ \E seed \in ReadSeeds :
         /\ db = seed.db
         /\ now = seed.now
         /\ upserts = seed.upserts
    /\ call = NoCall
    /\ ret = NoRet
    /\ procs = IdleProcs
    /\ sweep = NoSweep
    /\ earlier = NoneVal
    /\ pc = "idle"
    /\ pr = NoneVal
    /\ web = NoneVal
    /\ gemini = NoneVal
    /\ calls = NoCalls

NextReads == Retrieve \/ GetPending \/ UnknownAction

SpecReads == InitReads /\ [][NextReads]_vars

----------------------------------------------------------------------------
(* Properties of the Claims Store *)

Stored == {db.claims[i] : i \in 1..Len(db.claims)}

PendingIds == {db.pending_claims[j].id : j \in 1..Len(db.pending_claims)}

IsUpsert(c) == c.action = "store"

\* C1: every stored claim has status pending if and only if its verdict is
\* UNCERTAIN or OUTDATED_INFO or its confidence is below 0.65.
C1_StatusInvariant ==
    \A c \in Stored :
        c.status = "pending" <=>
            (c.verdict \in {"UNCERTAIN", "OUTDATED_INFO"}
               \/ c.confidence < ResolutionThreshold)

RecordOf(d, h) == d.claims[ExistingIdx(d.claims, h)]

\* C3: an upsert of a fingerprint that is not stored creates check_count = 1;
\* an upsert of a stored fingerprint adds exactly 1 to check_count, replaces
\* verdict, confidence and evidence by the arguments and keeps first_checked;
\* check_count is never below 1.
C3_Upsert ==
    /\ [](\A c \in Stored : c.check_count >= 1)
    /\ [][ (IsUpsert(call') /\ now' # now) =>
             LET h == ret'.claim_id
                 new == RecordOf(db', h)
             IN /\ ExistingIdx(db'.claims, h) # 0
                /\ new.verdict = call'.verdict
                /\ new.confidence = call'.confidence
                /\ new.evidence = call'.evidence
                /\ IF ExistingIdx(db.claims, h) = 0
                   THEN /\ new.check_count = 1
                        /\ Len(db'.claims) = Len(db.claims) + 1
                   ELSE /\ new.check_count = RecordOf(db, h).check_count + 1
                        /\ new.first_checked = RecordOf(db, h).first_checked
                        /\ Len(db'.claims) = Len(db.claims)
          ]_vars

\* the same (claim_text, verdict, confidence) upserted a second time
C3_Witness ==
    /\ IsUpsert(call)
    /\ \E c \in Stored :
          /\ c.id = ret.claim_id
          /\ c.check_count = 2
          /\ c.first_checked < c.last_checked
          /\ c.verdict = call.verdict /\ c.confidence = call.confidence

RECURSIVE CollapseWs(_)
\* runs of whitespace replaced by one blank
CollapseWs(s) ==
    IF Len(s) < 2 THEN s
    ELSE IF IsSpace(s[1]) /\ IsSpace(s[2]) THEN CollapseWs(Tail(s))
         ELSE <<Head(s)>> \o CollapseWs(Tail(s))

\* two texts that differ in case and whitespace only
SameModuloCaseAndWs(s, t) ==
    CollapseWs(Strip(LowerStr(s))) = CollapseWs(Strip(LowerStr(t)))

\* two texts that differ in case and in leading/trailing whitespace only
SameModuloCaseAndOuterWs(s, t) == Strip(LowerStr(s)) = Strip(LowerStr(t))

AllIdle == \A p \in 1..NumCallers : procs[p].pc = "idle"

\* C5: whatever the interleaving of concurrent upserts, once all of them have
\* returned every upserted claim is stored and its check_count is the number
\* of upserts made for its fingerprint.
C5_NoLostUpdate ==
    AllIdle =>
        \A h \in Fingerprints :
            upserts[h] > 0 =>
                /\ ExistingIdx(db.claims, h) # 0
                /\ RecordOf(db, h).check_count = upserts[h]

----------------------------------------------------------------------------
(* Properties of a pipeline run *)

\* the media analysis reported a synthetic input image
SyntheticImage ==
    /\ pc # "idle"
    /\ pr.stages.media_analysis # NoneVal
    /\ pr.stages.content_intake.media_type = "image"
    /\ pr.stages.media_analysis.is_deepfake = "True"

\* no call to web search, Reddit, Twitter or the reasoner was issued
NoEvidenceCalls ==
    /\ calls.web = 0
    /\ calls.reddit = 0
    /\ calls.twitter = 0
    /\ calls.gemini = 0

ShortText ==
    /\ pc # "idle"
    /\ pr.stages.media_analysis # NoneVal
    /\ pr.stages.content_intake.media_type \in {"image", "audio"}
    /\ "text_word_count" \in DOMAIN pr.stages.media_analysis
    /\ pr.stages.media_analysis.text_word_count < 10

ReasonerFailed ==
    /\ gemini # NoneVal
    /\ \/ gemini.reply.kind # "text"
       \/ gemini.reply.verdict = ""
       \/ gemini.reply.confidence[1] # "num"

\* C9 as stated: a failed or unparseable reasoner response is replaced by the
\* neutral default (UNCERTAIN, confidence 0, empty lists) and the run that
\* returns records the failure as a warning of its result
C9_GracefulDegradation ==
    (pc = "done" /\ ReasonerFailed) =>
        /\ gemini.result.verdict = "UNCERTAIN"
        /\ gemini.result.confidence = 0
        /\ gemini.result.key_evidence = <<>>
        /\ gemini.result.sources = <<>>
        /\ pr.stages.fact_check.warnings # <<>>

\* the run took the full fact-check path and has returned
FullPathDone == pc = "done" /\ gemini # NoneVal

\* the confidence the full path must return for a draft confidence and a
\* number of credible sources
Boosted(draft, credible) ==
    IF credible >= 3 THEN Min(draft + 150, 1000)
    ELSE IF credible >= 1 THEN Min(draft + 80, 1000)
    ELSE draft

\* C10 as stated: the boost is +0.15 (at least 3 credible sources), +0.08 (1 or
\* 2) or nothing, capped at 1.0; with at least 3 the confidence exceeds the
\* draft or is 1.0; a TRUE draft of at least 0.7 with 5 credible sources ends
\* TRUE with at least 0.85
C10_CorroborationBoost ==
    FullPathDone =>
        LET draft == gemini.result
            credible == Get(web, "credible_sources", 0)
        IN /\ pr.confidence = Boosted(draft.confidence, credible)
           /\ credible >= 3 =>
                 pr.confidence > draft.confidence \/ pr.confidence = 1000
           /\ (draft.verdict = "TRUE" /\ draft.confidence >= 700 /\ credible = 5) =>
                 pr.final_verdict = "TRUE" /\ pr.confidence >= 850

\* C10: as above, where the TRUE draft is not marked OUTDATED
C10_BoostUnlessOutdated ==
    FullPathDone =>
        LET draft == gemini.result
            credible == Get(web, "credible_sources", 0)
        IN /\ pr.confidence = Boosted(draft.confidence, credible)
           /\ credible >= 3 =>
                 pr.confidence > draft.confidence \/ pr.confidence = 1000
           /\ (/\ draft.verdict = "TRUE"
               /\ draft.confidence >= 700
               /\ credible = 5
               /\ draft.temporal_status # "OUTDATED") =>
                 pr.final_verdict = "TRUE" /\ pr.confidence >= 850

C10_Witness ==
    /\ FullPathDone
    /\ gemini.result.verdict = "TRUE"
    /\ gemini.result.confidence = 700
    /\ gemini.result.temporal_status = "CURRENT"
    /\ Get(web, "credible_sources", 0) = 5
    /\ pr.final_verdict = "TRUE"
    /\ pr.confidence = 850

----------------------------------------------------------------------------
(* Properties of the re-verification sweep *)

\* ids of the pending queue of a readable database d
QueueIds(d) == {d.pending_claims[j].id : j \in 1..Len(d.pending_claims)}

\* the sweep is re-checking a claim that is stored as UNCERTAIN and pending
RecheckingUncertain ==
    /\ sweep.pc = "checking"
    /\ Readable(db)
    /\ LET h == sweep.pending_claims[sweep.idx].id
       IN /\ ExistingIdx(db.claims, h) # 0
          /\ RecordOf(db, h).verdict = "UNCERTAIN"
          /\ RecordOf(db, h).status = "pending"
          /\ h \in QueueIds(db)

----------------------------------------------------------------------------
(* Properties of the reasoner's post-processing and of the full path *)

\* number of times the absence-of-coverage rationale occurs in an explanation
AbsenceCount(explanation) ==
    Cardinality({i \in 1..Len(explanation) : explanation[i] \in {"absence", "llm_absence"}})

\* C12 as stated: a text claim with 0 web results, 0 social results and
\* claim_significance MAJOR ends LIKELY_FALSE or UNCERTAIN with confidence
\* at least 0.6 and an explanation holding the absence rationale once
C12_AbsenceOfCoverage ==
    (/\ FullPathDone
     /\ web.results = 0
     /\ pr.stages.fact_check.social_posts = <<0, 0>>
     /\ Get(gemini.result, "claim_significance", "None") = "MAJOR") =>
        /\ pr.final_verdict \in {"LIKELY_FALSE", "UNCERTAIN"}
        /\ pr.confidence >= 600
        /\ AbsenceCount(pr.stages.fact_check.explanation) = 1

\* C13 as stated: a run on a synthetic image with 50 extracted words does
\* not take the insufficient-text path, its fact-check stage runs, both
\* callers report the media as synthetic, and with a FALSE fact-check verdict
\* they report DOUBLE ALERT
C13_SyntheticWithText ==
    (/\ pc = "done"
     /\ SyntheticImage
     /\ pr.stages.media_analysis.text_word_count = 50) =>
        /\ ~Get(pr.stages.fact_check, "skipped", FALSE)
        /\ pr.stages.fact_check.verdict # "NO_TEXT_CONTENT"
        /\ Truthy(format_image_result(pr).is_deepfake)
        /\ Truthy(api_analyze_media(pr, "image").is_deepfake)
        /\ pr.stages.fact_check.verdict = "FALSE" =>
              /\ format_image_result(pr).overall_verdict = "DOUBLE_ALERT"
              /\ api_analyze_media(pr, "image").overall_verdict = "DOUBLE_ALERT"

\* C14 as stated: a store or update call on a readable store, failing or
\* not, leaves the file either fully updated or as it was: afterwards
\* retrieve finds every claim stored before and get_pending succeeds
C14_AllOrNothing ==
    [][(Readable(db) /\ now' > now /\ call'.action = "store") =>
          /\ Get(ret', "success", FALSE) \/ db' = db
          /\ Get(run_get_pending(db'), "success", FALSE)
          /\ \A i \in 1..Len(db.claims) :
                Get(run_retrieve(db', db.claims[i].claim), "found", FALSE)]_vars

----------------------------------------------------------------------------
(* Properties of a run *)

\* C16 as stated: every run eventually returns, also when a collaborator
\* never responds
C16_AlwaysReturns == <>(pc = "done")

InRange(confidence) == confidence >= 0 /\ confidence <= 1000

\* C17 as stated: the confidence of the fact-check stage, the final confidence
\* and the confidence of every stored claim are within [0,1], whatever the
\* reply of the reasoner contains
C17_ConfidenceInRange ==
    /\ pc \in {"education", "done"} =>
          InRange(Get(pr.stages.fact_check, "confidence", 0))
    /\ pc = "done" => InRange(pr.confidence)
    /\ \A c \in Stored : InRange(c.confidence)

\* the reasoner answered with a text whose numbers parse
Drafted == gemini # NoneVal /\ gemini.reply.kind = "text"
           /\ gemini.reply.confidence[1] # "bad"

\* the pattern of the reply qualifies: it is set, with pattern_confidence > 0.6
PatternQualifies(reply) == reply.pattern # "NONE" /\ reply.pattern_confidence > 600

\* C18: the reasoner's post-processing caps the confidence at 0.2 when
\* relevance_score < 0.3 (prepending an irrelevance warning unless one is
\* present) and only then, for a qualifying pattern, prepends the pattern
\* warning and raises the confidence of a FALSE, LIKELY_FALSE or UNCERTAIN
\* verdict to at least pattern_confidence x 0.8; so with relevance_score < 0.3
\* and no qualifying pattern the draft confidence is at most 0.2
C18_CapThenPattern ==
    Drafted =>
        LET reply == gemini.reply
            draft == gemini.result
            stated == IF reply.confidence[1] = "missing" THEN 500
                      ELSE reply.confidence[2]
            low == reply.relevance < 300
            capped == IF low /\ stated > 200 THEN 200 ELSE stated
            raised == IF capped < (reply.pattern_confidence * 8) \div 10
                      THEN (reply.pattern_confidence * 8) \div 10 ELSE capped
            own == IF reply.warns_irrelevant THEN <<"llm_irrelevant">> ELSE <<>>
            rule1 == IF low /\ ~reply.warns_irrelevant THEN <<"irrelevant">> ELSE <<>>
            rule2 == IF PatternQualifies(reply) THEN <<"pattern">> ELSE <<>>
            later == IF reply.temporal = "OUTDATED" THEN <<"outdated">> ELSE <<>>
        IN /\ draft.confidence =
                 IF PatternQualifies(reply)
                    /\ draft.verdict \in {"FALSE", "LIKELY_FALSE", "UNCERTAIN"}
                 THEN raised ELSE capped
           /\ draft.warnings = rule2 \o rule1 \o own \o later
           /\ (low /\ ~PatternQualifies(reply)) => draft.confidence <= 200

\* an irrelevant search and a qualifying pattern: 0.7 is capped to 0.2 and
\* then raised to 0.9 x 0.8
C18_Witness ==
    /\ Drafted
    /\ pc = "done"
    /\ gemini.reply.relevance = 100
    /\ gemini.reply.confidence = <<"num", 700>>
    /\ gemini.reply.pattern_confidence = 900
    /\ gemini.result.verdict = "FALSE"
    /\ gemini.result.confidence = 720
    /\ gemini.result.warnings[1] = "pattern"
    /\ gemini.result.warnings[2] = "irrelevant"

\* the last element of a list of warnings is the staleness warning
EndsOutdated(warnings) ==
    Len(warnings) > 0 /\ warnings[Len(warnings)] = "outdated"

SkippedDone ==
    pc = "done" /\ pr # NoneVal /\ Get(pr.stages.fact_check, "skipped", FALSE)

\* C20 as stated: the short-circuit returns DEEPFAKE for synthetic media and
\* AUTHENTIC_NO_TEXT otherwise, with the forensics confidence, the education
\* output, and the recommendations the verdict-to-recommendation mapping gives
C20_SkipPathResult ==
    SkippedDone =>
        LET media == pr.stages.media_analysis
        IN /\ pr.final_verdict = IF Truthy(Get(media, "is_deepfake", "None"))
                                 THEN "DEEPFAKE" ELSE "AUTHENTIC_NO_TEXT"
           /\ pr.confidence = Get(media, "confidence", 0)
           /\ pr.stages.knowledge # NoneVal
           /\ calls.gemini = 0 /\ calls.web = 0
           /\ pr.recommendations = generate_recommendations(pr)

\* the fact-check step is about to take the deepfake short-circuit
AtDeepfakeShortCircuit ==
    pc = "fact_check" /\ MediaIsDeepfake(pr.stages.media_analysis)

\* C21 as stated: the deepfake short-circuit upserts the claim exactly once
\* with verdict FALSE and confidence 0.95, and calls neither retrieval nor
\* the reasoner
C21_ForcedStore ==
    [][AtDeepfakeShortCircuit =>
          LET h == get_claim_hash(pr.user_input)
          IN /\ calls'.web = calls.web
             /\ calls'.reddit = calls.reddit
             /\ calls'.twitter = calls.twitter
             /\ calls'.gemini = calls.gemini
             /\ calls'.store = calls.store + 1
             /\ upserts' = [upserts EXCEPT ![h] = @ + 1]
             /\ Readable(db')
             /\ ExistingIdx(db'.claims, h) # 0
             /\ RecordOf(db', h).verdict = "FALSE"
             /\ RecordOf(db', h).confidence = DeepfakeConfidence]_vars

\* the content type a content analysis stands for: the hint, or what
\* _analyze_content_type found (its content_type "media" is detailed by
\* media_type)
ClassifiedType(content_analysis) ==
    IF content_analysis.content_type = "media" THEN content_analysis.media_type
    ELSE content_analysis.content_type

\* C22 as stated: without a hint the classification gives text, image, video
\* or audio; with or without a hint the media analysis is entered exactly
\* when the content type is image, video or audio
C22_IntakeAndEntry ==
    [][(pc = "idle" /\ pc' # "idle") =>
          LET content_analysis == pr'.stages.content_intake
              type == ClassifiedType(content_analysis)
          IN /\ ~Get(content_analysis, "fast_mode", FALSE) =>
                   type \in {"text", "image", "video", "audio"}
             /\ pc' = "media_analysis" <=> type \in MediaTypes]_vars

\* C23 as stated: the tailored advice of a returned run is the do-not-share
\* advice when its verdict is FALSE, the verified-as-accurate advice when it
\* is TRUE, and otherwise chosen by whether its confidence is below 0.5
C23_TailoredAdvice ==
    (pc = "done" /\ pr # NoneVal) =>
        pr.stages.knowledge.tailored_advice =
            IF pr.final_verdict = "FALSE" THEN "do_not_share"
            ELSE IF pr.final_verdict = "TRUE" THEN "verified_accurate"
            ELSE IF pr.confidence < 500 THEN "cannot_verify"
            ELSE "partial_verification"

\* C24 as stated: the verdict and confidence the sweep upserts for a pending
\* claim are those the orchestrator's fact-check step gives for the same
\* draft and the same credible sources (same boost, same temporal override)
C24_SweepAsFactCheck ==
    [][(sweep.pc = "checking" /\ calls'.gemini > calls.gemini) =>
          LET draft == gemini'.result
              credible == Get(web', "credible_sources", 0)
          IN /\ call'.verdict =
                   TemporalOverride(Get(draft, "verdict", "UNCERTAIN"),
                                    Get(draft, "temporal_status", "UNCLEAR"))
             /\ call'.confidence = Boost(Get(draft, "confidence", 500), credible)]_vars

\* the fact-check step of the run stored its claim under the threshold rule
PersistedByRule ==
    /\ pc \in {"education", "done"}
    /\ gemini # NoneVal
    /\ Get(pr.stages.fact_check, "stored_in_db", "False") = "True"

\* C25 as stated: a claim the fact-check step persists under the threshold
\* rule is stored as pending and returned by get_pending right after the run
C25_PersistedIsPending ==
    PersistedByRule =>
        LET h == get_claim_hash(pr.user_input)
        IN /\ ExistingIdx(db.claims, h) # 0
           /\ RecordOf(db, h).status = "pending"
           /\ h \in QueueIds(run_get_pending(db))

\* C26 as stated: when a claim is pending and a live run on the same text
\* reaches a verdict other than UNCERTAIN and OUTDATED_INFO with confidence
\* of at least 0.65, the stored claim is resolved after the run and
\* get_pending no longer returns it
C26_LiveRunResolves ==
    [][(/\ pc = "fact_check"
        /\ calls'.gemini > calls.gemini
        /\ get_claim_hash(pr.user_input) \in QueueIds(db)
        /\ pr'.stages.fact_check.verdict \notin {"UNCERTAIN", "OUTDATED_INFO"}
        /\ pr'.stages.fact_check.confidence >= ResolutionThreshold) =>
          LET h == get_claim_hash(pr.user_input)
          IN /\ RecordOf(db', h).status = "resolved"
             /\ h \notin QueueIds(run_get_pending(db'))]_vars

\* the re-check under way got an error result from the reasoner or from the
\* web search
RecheckFailed ==
    gemini'.result.error \/ Get(web', "error", FALSE)

\* C27 as stated: when the reasoner or the retrieval call fails during the
\* re-check of a pending claim, the stored verdict, confidence and evidence
\* stay as they were and the claim stays in the pending queue
C27_FailedRecheckKeepsRecord ==
    [][(/\ sweep.pc = "checking"
        /\ calls'.gemini > calls.gemini
        /\ Readable(db)
        /\ ExistingIdx(db.claims, sweep.pending_claims[sweep.idx].id) # 0
        /\ RecheckFailed) =>
          LET h == sweep.pending_claims[sweep.idx].id
          IN /\ Readable(db')
             /\ ExistingIdx(db'.claims, h) # 0
             /\ RecordOf(db', h).verdict = RecordOf(db, h).verdict
             /\ RecordOf(db', h).confidence = RecordOf(db, h).confidence
             /\ RecordOf(db', h).evidence = RecordOf(db, h).evidence
             /\ h \in QueueIds(db')]_vars

\* the verdicts of the specification
Verdicts ==
    {"TRUE", "FALSE", "LIKELY_FALSE", "PARTIALLY_TRUE", "OUTDATED_INFO",
     "UNVERIFIED", "UNCERTAIN", "DEEPFAKE", "AUTHENTIC_NO_TEXT"}

\* C28 as stated: the final verdict of every returned run and the verdict of
\* every stored claim is one of the nine verdicts, whatever the reasoner
\* returned
C28_VerdictDomain ==
    /\ (pc = "done" /\ pr # NoneVal) => pr.final_verdict \in Verdicts
    /\ Readable(db) => \A c \in Stored : c.verdict \in Verdicts

----------------------------------------------------------------------------
(* Properties of the read-only store operations *)

\* the call just made is a retrieve, a get_pending or an unknown action
ReadOnlyCall ==
    now' # now /\ call'.action \in {"retrieve", "get_pending", "bogus"}

\* C29: retrieve, get_pending and a call with an unknown action leave every
\* stored claim, every check_count and the pending queue as they were, and
\* return their result, or an error value when the file cannot be read or
\* the action is unknown
C29_ReadsLeaveStore ==
    [][ReadOnlyCall =>
          /\ db' = db
          /\ upserts' = upserts
          /\ call'.action = "bogus" => ret'.kind = "error"
          /\ (call'.action # "bogus" /\ ~Readable(db)) => ret'.kind = "error"
          /\ (call'.action = "retrieve" /\ Readable(db)) =>
                LET h == get_claim_hash(call'.claim)
                IN /\ ret'.found <=> ExistingIdx(db.claims, h) # 0
                   /\ ret'.found => ret'.claim_data = RecordOf(db, h)
          /\ (call'.action = "get_pending" /\ Readable(db)) =>
                ret'.pending_claims = db.pending_claims]_vars

\* a stored pending claim was retrieved and is stored as before
C29_Witness ==
    /\ call.action = "retrieve"
    /\ Readable(db)
    /\ Get(ret, "found", FALSE)
    /\ ret.claim_data.check_count = 1
    /\ RecordOf(db, get_claim_hash(call.claim)).check_count = 1
    /\ RecordOf(db, get_claim_hash(call.claim)).status = "pending"
    /\ get_claim_hash(call.claim) \in QueueIds(db)

----------------------------------------------------------------------------
(* Properties of two runs on one store *)

\* the social posts a fact-check stage reports, <<0, 0>> when it has none
SocialOf(stage) == Get(stage, "social_posts", <<0, 0>>)

\* the run that has returned had the request and the collaborator responses
\* of the run before it: same input, file and hint, same detector and OCR
\* output, same web, social and reasoner responses
SameInputs ==
    /\ pr.user_input = earlier.pr.user_input
    /\ pr.file_path = earlier.pr.file_path
    /\ pr.stages.content_intake = earlier.pr.stages.content_intake
    /\ pr.stages.media_analysis = earlier.pr.stages.media_analysis
    /\ web = earlier.web
    /\ SocialOf(pr.stages.fact_check) = SocialOf(earlier.pr.stages.fact_check)
    /\ (gemini = NoneVal) = (earlier.gemini = NoneVal)
    /\ gemini # NoneVal => gemini.reply = earlier.gemini.reply

\* C30: two runs with the same request and the same collaborator responses
\* return the same final verdict and the same final confidence, whatever
\* the store held when each of them started
C30_StoreIndependent ==
    (pc = "done" /\ earlier # NoneVal /\ SameInputs) =>
        /\ pr.final_verdict = earlier.pr.final_verdict
        /\ pr.confidence = earlier.pr.confidence

\* the first run found the claim absent and stored it, the second found it
\* stored and stored it again; both returned FALSE with 0.6
C30_Witness ==
    /\ pc = "done"
    /\ earlier # NoneVal
    /\ SameInputs
    /\ pr.final_verdict = "FALSE"
    /\ pr.confidence = 600
    /\ earlier.pr.confidence = 600
    /\ Readable(db)
    /\ ExistingIdx(db.claims, get_claim_hash(pr.user_input)) # 0
    /\ RecordOf(db, get_claim_hash(pr.user_input)).check_count = 2

====
